---- MODULE Spec2Model ----
(***************************************************************************)
(* A model of icons/generate_icons.py: the minimal PNG encoder make_png,   *)
(* the three icon pixel functions, and the script's main block.            *)
(*                                                                         *)
(* Bytes are the integers 0..255, byte strings are sequences of bytes, and *)
(* a 32-bit word is the sequence of its four bytes, most significant       *)
(* first (the layout struct.pack('>I', ..) produces).                      *)
(***************************************************************************)
EXTENDS Integers, Sequences, FiniteSets, TLC

VARIABLES
    pc,         \* position of the caller of make_png (the main block, or a caller of the encoder)
    icons,      \* main: the dict `icons`, in insertion order, as <<name, data>> pairs
    files,      \* the script directory: file name -> content, or NoFile
    prior,      \* the script directory as it was when the run started
    effects,    \* what the run did to the outside, in order: [op, text, name, size], a
                \* file written and closed (op "write") or a line printed (op "print")
    mpc,        \* make_png: position inside the call ("none" when no call is active)
    width,      \* make_png: parameter width
    height,     \* make_png: parameter height
    pixel_fn,   \* make_png: parameter pixel_fn (the name of the pixel function)
    x,          \* make_png: loop variable x
    y,          \* make_png: loop variable y
    raw,        \* make_png: local raw
    compressed, \* make_png: local compressed
    ihdr,       \* make_png: local ihdr
    ret,        \* make_png: the value returned to the caller
    calls,      \* the calls of pixel_fn made by the active make_png: <<x, y, result>>
    results,    \* a caller of the encoder: the finished calls, [w, h, f, out]
    tampered,   \* a copy of an encoder output with one payload byte altered, or <<>>
    it,         \* main: the position of `for name, data in icons.items()`
    failure     \* the uncaught exception that ended the run, "" when there is none

vars == <<pc, icons, files, prior, effects, mpc, width, height, pixel_fn, x, y,
          raw, compressed, ihdr, ret, calls, results, tampered, it, failure>>

----------------------------------------------------------------------------
(* Bytes and 32-bit words *)

Byte == 0..255

RECURSIVE XorBits(_, _, _)
XorBits(a, b, n) ==
    IF n = 0 THEN 0
    ELSE (((a % 2) + (b % 2)) % 2) + 2 * XorBits(a \div 2, b \div 2, n - 1)

XorTable == [a \in Byte |-> [b \in Byte |-> XorBits(a, b, 8)]]

XorByte(a, b) == XorTable[a][b]

XorWord(u, v) == <<XorByte(u[1], v[1]), XorByte(u[2], v[2]),
                   XorByte(u[3], v[3]), XorByte(u[4], v[4])>>

\* u >> 1 on a 32-bit word
ShiftRight1(u) == << u[1] \div 2,
                     ((u[1] % 2) * 128) + (u[2] \div 2),
                     ((u[2] % 2) * 128) + (u[3] \div 2),
                     ((u[3] % 2) * 128) + (u[4] \div 2) >>

\* struct.pack('>I', n): the four bytes of n, most significant first
PackU32(n) == << (n \div 16777216) % 256, (n \div 65536) % 256,
                 (n \div 256) % 256, n % 256 >>

\* struct.pack('>B', n)
PackU8(n) == << n >>

SubBytes(s, lo, hi) == [i \in 1..(hi - lo + 1) |-> s[lo + i - 1]]

----------------------------------------------------------------------------
(* zlib.crc32: CRC-32 (polynomial 0xEDB88320, reflected), table driven *)

CrcPoly == <<237, 184, 131, 32>>
AllOnes == <<255, 255, 255, 255>>

RECURSIVE CrcBitSteps(_, _)
CrcBitSteps(c, n) ==
    IF n = 0 THEN c
    ELSE CrcBitSteps(IF c[4] % 2 = 1 THEN XorWord(ShiftRight1(c), CrcPoly)
                     ELSE ShiftRight1(c), n - 1)

CrcTable == [n \in Byte |-> CrcBitSteps(<<0, 0, 0, n>>, 8)]

CrcStep(c, b) == XorWord(CrcTable[XorByte(c[4], b)], <<0, c[1], c[2], c[3]>>)

\* the running CRC register after the bytes s[lo..hi], from register c.  The
\* range is halved so that the evaluation stays shallow on long inputs; the
\* test c[1] < 0 never holds, it has the register computed before the range
\* is entered.
RECURSIVE CrcRun(_, _, _, _)
CrcRun(c, s, lo, hi) ==
    IF lo > hi \/ c[1] < 0 THEN c
    ELSE IF lo = hi THEN CrcStep(c, s[lo])
    ELSE LET mid == (lo + hi) \div 2
         IN  CrcRun(CrcRun(c, s, lo, mid), s, mid + 1, hi)

\* zlib.crc32(s) & 0xFFFFFFFF, as a 32-bit word
Crc32(s) == XorWord(CrcRun(AllOnes, s, 1, Len(s)), AllOnes)

----------------------------------------------------------------------------
(* zlib.compress / zlib.decompress.  The zlib stream is modelled as RFC 1950 *)
(* around RFC 1951 stored blocks: the header 78 DA, the data in blocks of    *)
(* at most 65535 bytes, the Adler-32 of the data.                            *)

AdlerMod == 65521
StoredMax == 65535

AdlerStep(st, b) ==
    LET a == (st[1] + b) % AdlerMod
    IN  <<a, (st[2] + a) % AdlerMod>>

\* the running sums after the bytes s[lo..hi], from the sums st (halved and
\* forced like CrcRun)
RECURSIVE AdlerRun(_, _, _, _)
AdlerRun(st, s, lo, hi) ==
    IF lo > hi \/ st[1] < 0 THEN st
    ELSE IF lo = hi THEN AdlerStep(st, s[lo])
    ELSE LET mid == (lo + hi) \div 2
         IN  AdlerRun(AdlerRun(st, s, lo, mid), s, mid + 1, hi)

\* Adler-32 of s as a 32-bit word: b in the high half, a in the low half
Adler32(s) ==
    LET st == AdlerRun(<<1, 0>>, s, 1, Len(s))
    IN  <<st[2] \div 256, st[2] % 256, st[1] \div 256, st[1] % 256>>

\* one stored block: BFINAL/BTYPE=00, LEN and NLEN little-endian, the bytes
StoredBlock(s, lo, hi, final) ==
    LET n == hi - lo + 1
    IN  <<(IF final THEN 1 ELSE 0), n % 256, n \div 256,
          255 - (n % 256), 255 - (n \div 256)>> \o SubBytes(s, lo, hi)

RECURSIVE StoredBlocks(_, _)
StoredBlocks(s, lo) ==
    IF Len(s) - lo + 1 <= StoredMax THEN StoredBlock(s, lo, Len(s), TRUE)
    ELSE StoredBlock(s, lo, lo + StoredMax - 1, FALSE) \o StoredBlocks(s, lo + StoredMax)

ZlibCompress(s) == <<120, 218>> \o StoredBlocks(s, 1) \o Adler32(s)

----------------------------------------------------------------------------
(* make_png: the pieces of the byte stream *)

\* b'\x89PNG\r\n\x1a\n'
Signature == <<137, 80, 78, 71, 13, 10, 26, 10>>

\* the chunk names b'IHDR', b'IDAT', b'IEND'
IHDR == <<73, 72, 68, 82>>
IDAT == <<73, 68, 65, 84>>
IEND == <<73, 69, 78, 68>>

\* a faulty png_chunk: the CRC taken over the data without the name
PngChunkCrcOfData(name, data) ==
    LET payload == name \o data
    IN  PackU32(Len(data)) \o payload \o Crc32(data)

\* png_chunk(name, data)
PngChunk(name, data) ==
    LET payload == name \o data
        crc == Crc32(payload)
    IN  PackU32(Len(data)) \o payload \o crc

\* a faulty header: height packed before width
IhdrPayloadSwappedDims(w, h) ==
    PackU32(h) \o PackU32(w) \o PackU8(8) \o PackU8(6) \o PackU8(0) \o PackU8(0) \o PackU8(0)

\* struct.pack('>IIBBBBB', width, height, 8, 6, 0, 0, 0)
IhdrPayload(w, h) ==
    PackU32(w) \o PackU32(h) \o PackU8(8) \o PackU8(6) \o PackU8(0) \o PackU8(0) \o PackU8(0)

\* a faulty return expression: IDAT before IHDR
PngStreamIdatFirst(hd, comp) ==
    Signature \o PngChunk(IDAT, comp) \o PngChunk(IHDR, hd) \o PngChunk(IEND, <<>>)

\* the return expression of make_png
PngStream(hd, comp) ==
    Signature \o PngChunk(IHDR, hd) \o PngChunk(IDAT, comp) \o PngChunk(IEND, <<>>)

\* bytes([r, g, b, a]): the four channels, or a ValueError when one is not a byte
IsPixel(p) == p[1] \in Byte /\ p[2] \in Byte /\ p[3] \in Byte /\ p[4] \in Byte

\* a faulty conversion: blue, green, red, alpha
PixelBytesBgra(p) == <<p[3], p[2], p[1], p[4]>>

\* bytes([r, g, b, a])
PixelBytes(p) == <<p[1], p[2], p[3], p[4]>>

\* b'\x00', the filter type byte that starts a row
FilterNone == <<0>>

----------------------------------------------------------------------------
(* The reading side: a PNG reader for what make_png writes (the signature,  *)
(* length-prefixed CRC-protected chunks, a zlib stream of stored blocks,     *)
(* rows of filter type 0).  It is what the round-trip and integrity          *)
(* properties are stated against; it models no code of the script.           *)

\* four bytes at offset i (1-based), big-endian; -1 when above 2^31 - 1,
\* which PNG does not allow for a length or a dimension
U32(b, i) ==
    IF b[i] >= 128 THEN -1
    ELSE ((b[i] * 16777216) + (b[i + 1] * 65536)) + ((b[i + 2] * 256) + b[i + 3])

Malformed == [type |-> <<>>, data |-> <<>>, crc |-> <<>>]

RECURSIVE ChunksFrom(_, _)
ChunksFrom(b, i) ==
    IF i > Len(b) THEN <<>>
    ELSE IF i + 11 > Len(b) THEN <<Malformed>>
    ELSE LET n == U32(b, i)
         IN  IF n < 0 \/ i + 11 + n > Len(b) THEN <<Malformed>>
             ELSE <<[type |-> SubBytes(b, i + 4, i + 7),
                     data |-> SubBytes(b, i + 8, i + 7 + n),
                     crc  |-> SubBytes(b, i + 8 + n, i + 11 + n)]>>
                  \o ChunksFrom(b, i + 12 + n)

HasSignature(b) == Len(b) >= 8 /\ SubBytes(b, 1, 8) = Signature

\* the chunks of a stream, in order (the bytes after the signature)
ParseChunks(b) == ChunksFrom(b, 9)

ChunkCrcOk(c) == c # Malformed /\ c.crc = Crc32(c.type \o c.data)

\* the stored blocks of a deflate stream from offset i: [ok, data, next]
RECURSIVE InflateStored(_, _)
InflateStored(z, i) ==
    IF i + 4 > Len(z) THEN [ok |-> FALSE, data |-> <<>>, next |-> i]
    ELSE LET final == z[i] % 2
             btype == (z[i] \div 2) % 4
             n     == z[i + 1] + (256 * z[i + 2])
             nn    == z[i + 3] + (256 * z[i + 4])
         IN  IF btype # 0 \/ z[i] >= 8 \/ n + nn # 65535 \/ i + 4 + n > Len(z)
             THEN [ok |-> FALSE, data |-> <<>>, next |-> i]
             ELSE IF final = 1
                  THEN [ok |-> TRUE, data |-> SubBytes(z, i + 5, i + 4 + n),
                        next |-> i + 5 + n]
                  ELSE LET rest == InflateStored(z, i + 5 + n)
                       IN  [ok |-> rest.ok,
                            data |-> SubBytes(z, i + 5, i + 4 + n) \o rest.data,
                            next |-> rest.next]

\* zlib.decompress: [ok, data]
ZlibDecompress(z) ==
    IF Len(z) < 6 \/ z[1] # 120 \/ ((z[1] * 256) + z[2]) % 31 # 0 \/ (z[2] \div 32) % 2 # 0
    THEN [ok |-> FALSE, data |-> <<>>]
    ELSE LET body == InflateStored(z, 3)
         IN  IF ~body.ok \/ body.next + 3 # Len(z) THEN [ok |-> FALSE, data |-> <<>>]
             ELSE [ok |-> SubBytes(z, body.next, body.next + 3) = Adler32(body.data),
                   data |-> body.data]

NoImage == [ok |-> FALSE, width |-> 0, height |-> 0, depth |-> 0, ctype |-> 0,
            compression |-> 0, filter |-> 0, interlace |-> 0, data |-> <<>>]

\* a reader of 8-bit RGBA, non-interlaced PNG files
DecodePng(b) ==
    IF ~HasSignature(b) THEN NoImage
    ELSE LET cs == ParseChunks(b)
         IN  IF Len(cs) # 3 \/ \E i \in 1..Len(cs) : ~ChunkCrcOk(cs[i]) THEN NoImage
             ELSE IF cs[1].type # IHDR \/ cs[2].type # IDAT \/ cs[3].type # IEND
                     \/ Len(cs[1].data) # 13 \/ Len(cs[3].data) # 0 THEN NoImage
             ELSE LET hd == cs[1].data
                      w  == U32(hd, 1)
                      h  == U32(hd, 5)
                      z  == ZlibDecompress(cs[2].data)
                  IN  IF w <= 0 \/ h <= 0 \/ hd[9] # 8 \/ hd[10] # 6 \/ hd[11] # 0
                         \/ hd[12] # 0 \/ hd[13] # 0 \/ ~z.ok THEN NoImage
                      ELSE IF Len(z.data) # h * (1 + (4 * w))
                              \/ \E r \in 0..(h - 1) : z.data[(r * (1 + (4 * w))) + 1] # 0
                      THEN NoImage
                      ELSE [ok |-> TRUE, width |-> w, height |-> h, depth |-> hd[9],
                            ctype |-> hd[10], compression |-> hd[11], filter |-> hd[12],
                            interlace |-> hd[13], data |-> z.data]

\* the pixel of a decoded image at (px, py): the row's filter byte dropped
DecodedPixel(img, px, py) ==
    LET at == (py * (1 + (4 * img.width))) + 1 + (4 * px)
    IN  <<img.data[at + 1], img.data[at + 2], img.data[at + 3], img.data[at + 4]>>

----------------------------------------------------------------------------
(* The icon pixel functions.  The script computes with floats; every value  *)
(* it compares is a multiple of 1/2, so lengths are kept doubled here and   *)
(* sqrt(d) <= t is stated as d <= t * t.                                    *)

SIZE == 48

Max3(a, b, c) == IF a >= b /\ a >= c THEN a ELSE IF b >= c THEN b ELSE c

Sq(a) == a * a

\* int((r + 0.5 - dist) * 255) for dist = sqrt(d2): the largest a with
\* a <= 255 * (r + 0.5 - dist), i.e. 510 * dist <= 255 * (2r + 1) - 2a
AlphaRamp(r, d2) ==
    CHOOSE a \in 0..255 :
        /\ 260100 * d2 <= Sq((255 * ((2 * r) + 1)) - (2 * a))
        /\ 260100 * d2 >  Sq((255 * ((2 * r) + 1)) - (2 * (a + 1)))

\* circle_aa(cx, cy, r, color, x, y), for whole cx, cy and r
CircleAa(cx, cy, r, color, px, py) ==
    LET dx == px - cx
        dy == py - cy
        d2 == (dx * dx) + (dy * dy)
    IN  IF 4 * d2 <= Sq((2 * r) - 1) THEN <<color[1], color[2], color[3], 255>>
        ELSE IF 4 * d2 <= Sq((2 * r) + 1)
             THEN <<color[1], color[2], color[3], AlphaRamp(r, d2)>>
             ELSE <<0, 0, 0, 0>>

\* make_recording: cx, cy = SIZE / 2, r = SIZE / 2 - 4
RED == <<220, 50, 50>>

\* a faulty recording pixel: the centre at (SIZE, SIZE)
RecordingPixelOffCentre(px, py) ==
    CircleAa(SIZE, SIZE, (SIZE \div 2) - 4, RED, px, py)

\* make_recording.pixel
RecordingPixel(px, py) ==
    CircleAa(SIZE \div 2, SIZE \div 2, (SIZE \div 2) - 4, RED, px, py)

\* make_idle: the shape parameters, doubled where the script's value may be
\* a half (cx2 = 2 * cx = SIZE, and so on)
GRAY == <<130, 130, 140>>
body_w == 14
body_h == 18
post_w == 3
post_h == 8
base_w == 16
base_h == 3
arm_r == 11
cx2 == SIZE
cy2 == SIZE
body_x0_2 == cx2 - body_w
body_y0_2 == (cy2 - body_h) - 8
body_r_2 == body_w
post_x0_2 == cx2 - post_w
post_y0_2 == (cy2 + body_h) - 8
base_x0_2 == cx2 - base_w
base_y0_2 == (post_y0_2 + (2 * post_h)) - 2

IdlePixel(px, py) ==
    LET in_body_rect ==
            /\ body_x0_2 + body_r_2 <= 2 * px
            /\ 2 * px <= (body_x0_2 + (2 * body_w)) - body_r_2
            /\ body_y0_2 <= 2 * py
            /\ 2 * py <= body_y0_2 + (2 * body_h)
        in_body_full ==
            /\ body_x0_2 <= 2 * px
            /\ 2 * px <= body_x0_2 + (2 * body_w)
            /\ body_y0_2 + body_r_2 <= 2 * py
            /\ 2 * py <= (body_y0_2 + (2 * body_h)) - body_r_2
        top_circle ==
            Sq((2 * px) - cx2) + Sq((2 * py) - (body_y0_2 + body_r_2)) <= Sq(body_r_2)
        bot_circle ==
            Sq((2 * px) - cx2) + Sq((2 * py) - ((body_y0_2 + (2 * body_h)) - body_r_2))
                <= Sq(body_r_2)
        in_body == in_body_rect \/ in_body_full \/ top_circle \/ bot_circle
        in_post ==
            /\ post_x0_2 <= 2 * px
            /\ 2 * px <= post_x0_2 + (2 * post_w)
            /\ post_y0_2 <= 2 * py
            /\ 2 * py <= post_y0_2 + (2 * post_h)
        in_base ==
            /\ base_x0_2 <= 2 * px
            /\ 2 * px <= base_x0_2 + (2 * base_w)
            /\ base_y0_2 <= 2 * py
            /\ 2 * py <= base_y0_2 + (2 * base_h)
        arm_d2_4 == Sq((2 * px) - cx2) + Sq((2 * py) - post_y0_2)
        in_arm_ring ==
            /\ Sq((2 * arm_r) - 3) <= arm_d2_4
            /\ arm_d2_4 <= Sq((2 * arm_r) + 3)
            /\ 2 * py <= post_y0_2
            /\ (cx2 - (2 * arm_r)) - 2 <= 2 * px
            /\ 2 * px <= (cx2 + (2 * arm_r)) + 2
    IN  IF in_body \/ in_post \/ in_base \/ in_arm_ring
        THEN <<GRAY[1], GRAY[2], GRAY[3], 255>>
        ELSE <<0, 0, 0, 0>>

\* make_paused
YELLOW == <<230, 190, 40>>
bar_w == 9
bar_h == 24
gap == 8
bar_r == 3
top == (SIZE - bar_h) \div 2
total_w == (bar_w * 2) + gap
left1 == (SIZE - total_w) \div 2
left2 == (left1 + bar_w) + gap

RoundedRect(px, py, rx, ry, rw, rh, r) ==
    LET dx == Max3(rx - px, 0, px - (rx + rw))
        dy == Max3(ry - py, 0, py - (ry + rh))
    IN  (dx * dx) + (dy * dy) <= r * r

\* a faulty paused pixel: the second bar half transparent
PausedPixelSoft(px, py) ==
    IF RoundedRect(px, py, left1, top, bar_w, bar_h, bar_r)
    THEN <<YELLOW[1], YELLOW[2], YELLOW[3], 255>>
    ELSE IF RoundedRect(px, py, left2, top, bar_w, bar_h, bar_r)
         THEN <<YELLOW[1], YELLOW[2], YELLOW[3], 128>>
         ELSE <<0, 0, 0, 0>>

\* make_paused.pixel
PausedPixel(px, py) ==
    LET in_bar1 == RoundedRect(px, py, left1, top, bar_w, bar_h, bar_r)
        in_bar2 == RoundedRect(px, py, left2, top, bar_w, bar_h, bar_r)
    IN  IF in_bar1 \/ in_bar2 THEN <<YELLOW[1], YELLOW[2], YELLOW[3], 255>>
        ELSE <<0, 0, 0, 0>>

----------------------------------------------------------------------------
(* Pixel functions handed to make_png: the three of the script, and three   *)
(* small ones for calls of the encoder on its own.                          *)

\* lambda x, y: (255,0,0,255) if x == 0 else (0,255,0,128)
ExamplePixel(px, py) == IF px = 0 THEN <<255, 0, 0, 255>> ELSE <<0, 255, 0, 128>>

\* every coordinate and every channel told apart
CoordPixel(px, py) == <<((16 * px) + py) + 1, 100 + px, 200 + py, 255 - ((4 * px) + py)>>

\* a channel that is not a byte, at x = 1
OverflowPixel(px, py) == IF px = 1 THEN <<256, 0, 0, 0>> ELSE <<1, 2, 3, 4>>

PixelFn(f, px, py) ==
    CASE f = "idle" -> IdlePixel(px, py)
      [] f = "recording" -> RecordingPixel(px, py)
      [] f = "paused" -> PausedPixel(px, py)
      [] f = "example" -> ExamplePixel(px, py)
      [] f = "coord" -> CoordPixel(px, py)
      [] f = "overflow" -> OverflowPixel(px, py)

----------------------------------------------------------------------------
(* make_png(width, height, pixel_fn), one action per step of its body *)

NoFrame ==
    /\ mpc = "none" /\ width = 0 /\ height = 0 /\ pixel_fn = ""
    /\ x = 0 /\ y = 0 /\ raw = <<>> /\ compressed = <<>> /\ ihdr = <<>>
    /\ ret = <<>> /\ calls = <<>>

\* an exception leaves make_png: its frame is gone
DropFrame ==
    /\ mpc' = "none" /\ width' = 0 /\ height' = 0 /\ pixel_fn' = ""
    /\ x' = 0 /\ y' = 0 /\ raw' = <<>> /\ compressed' = <<>> /\ ihdr' = <<>>
    /\ ret' = <<>> /\ calls' = <<>>

\* make_png has returned and its caller has taken the value.  The locals are
\* left as they are: nothing but the assignments of the next call's own body
\* gives that call its values.
LeaveMakePng ==
    /\ mpc' = "none" /\ ret' = <<>>
    /\ UNCHANGED <<width, height, pixel_fn, x, y, raw, compressed, ihdr, calls>>

\* a faulty entry: raw is a buffer shared by the calls, never emptied
EnterMakePngKeepRaw(w, h, f) ==
    /\ mpc' = "row" /\ width' = w /\ height' = h /\ pixel_fn' = f
    /\ x' = 0 /\ y' = 0 /\ calls' = <<>>
    /\ UNCHANGED <<raw, compressed, ihdr, ret>>

\* entering make_png: the parameters are bound, raw = b'', the loops start at 0
EnterMakePng(w, h, f) ==
    /\ mpc' = "row" /\ width' = w /\ height' = h /\ pixel_fn' = f
    /\ raw' = <<>>
    /\ x' = 0 /\ y' = 0 /\ calls' = <<>>
    /\ UNCHANGED <<compressed, ihdr, ret>>

\* a faulty row start: no filter byte
MpRowNoFilter ==
    /\ mpc = "row" /\ y < height
    /\ x' = 0
    /\ mpc' = "pixel"
    /\ UNCHANGED <<pc, icons, files, prior, effects, width, height, pixel_fn, y, raw,
                   compressed, ihdr, ret, calls, results, tampered, it, failure>>

\* for y in range(height): raw += b'\x00'
MpRow ==
    /\ mpc = "row" /\ y < height
    /\ raw' = raw \o FilterNone
    /\ x' = 0
    /\ mpc' = "pixel"
    /\ UNCHANGED <<pc, icons, files, prior, effects, width, height, pixel_fn, y,
                   compressed, ihdr, ret, calls, results, tampered, it, failure>>

\* for x in range(width): r, g, b, a = pixel_fn(x, y); raw += bytes([r, g, b, a])
\* (bytes() raises ValueError on a channel outside 0..255, which ends the run)
MpPixel ==
    /\ mpc = "pixel" /\ x < width
    /\ LET p == PixelFn(pixel_fn, x, y)
       IN  IF IsPixel(p)
           THEN /\ raw' = raw \o PixelBytes(p)
                /\ calls' = Append(calls, <<x, y, p>>)
                /\ x' = x + 1
                /\ UNCHANGED <<pc, mpc, width, height, pixel_fn, y, compressed, ihdr,
                               ret, failure>>
           ELSE /\ DropFrame
                /\ pc' = "failed"
                /\ failure' = "ValueError"
    /\ UNCHANGED <<icons, files, prior, effects, results, tampered, it>>

\* the inner loop is exhausted: the next y
MpRowEnd ==
    /\ mpc = "pixel" /\ x = width
    /\ y' = y + 1
    /\ mpc' = "row"
    /\ UNCHANGED <<pc, icons, files, prior, effects, width, height, pixel_fn, x, raw,
                   compressed, ihdr, ret, calls, results, tampered, it, failure>>

\* compressed = zlib.compress(raw, 9)
MpCompress ==
    /\ mpc = "row" /\ y = height
    /\ compressed' = ZlibCompress(raw)
    /\ mpc' = "ihdr"
    /\ UNCHANGED <<pc, icons, files, prior, effects, width, height, pixel_fn, x, y, raw,
                   ihdr, ret, calls, results, tampered, it, failure>>

\* ihdr = struct.pack('>IIBBBBB', width, height, 8, 6, 0, 0, 0)
MpIhdr ==
    /\ mpc = "ihdr"
    /\ ihdr' = IhdrPayload(width, height)
    /\ mpc' = "return"
    /\ UNCHANGED <<pc, icons, files, prior, effects, width, height, pixel_fn, x, y, raw,
                   compressed, ret, calls, results, tampered, it, failure>>

\* return signature + png_chunk(IHDR) + png_chunk(IDAT) + png_chunk(IEND)
MpReturn ==
    /\ mpc = "return"
    /\ ret' = PngStream(ihdr, compressed)
    /\ mpc' = "returned"
    /\ UNCHANGED <<pc, icons, files, prior, effects, width, height, pixel_fn, x, y, raw,
                   compressed, ihdr, calls, results, tampered, it, failure>>


----------------------------------------------------------------------------
(* make_png as a function of its arguments: the value a whole call returns, *)
(* for the callers that take the call as one step.                          *)

\* the inner loop from x0 on: the pixels of row py
RECURSIVE RowFrom(_, _, _, _)
RowFrom(f, w, py, x0) ==
    IF x0 >= w THEN <<>>
    ELSE PixelBytes(PixelFn(f, x0, py)) \o RowFrom(f, w, py, x0 + 1)

\* the outer loop from y0 on: each row after its filter byte
RECURSIVE RowsFrom(_, _, _, _)
RowsFrom(f, w, h, y0) ==
    IF y0 >= h THEN <<>>
    ELSE (FilterNone \o RowFrom(f, w, y0, 0)) \o RowsFrom(f, w, h, y0 + 1)

\* raw, when the loops are done
Scanlines(w, h, f) == RowsFrom(f, w, h, 0)

\* no bytes([r, g, b, a]) of the call raises ValueError
PixelsValid(w, h, f) ==
    \A py \in 0..(h - 1) : \A px \in 0..(w - 1) : IsPixel(PixelFn(f, px, py))

MakePng(w, h, f) == PngStream(IhdrPayload(w, h), ZlibCompress(Scanlines(w, h, f)))

----------------------------------------------------------------------------
(* The main block: build the dict of the three icons, then write each file  *)
(* and print its line, then print 'Done.'                                   *)

\* the dict literal: 'idle.png': make_idle(), 'recording.png': make_recording(), ...
ICONS == << <<"idle.png", "idle">>, <<"recording.png", "recording">>,
            <<"paused.png", "paused">> >>

FileNames == {ICONS[i][1] : i \in 1..Len(ICONS)}

NoFile == [exists |-> FALSE, data |-> <<>>]
StaleFile == [exists |-> TRUE, data |-> <<1, 2, 3>>]

\* the script directory before the run: each file there already, or not
FsInits == [FileNames -> {NoFile, StaleFile}]

\* how much of the data a failed f.write() may have left in the file
PartialLens(data) == {0, Len(data) \div 2}

Init ==
    /\ pc = "icons"
    /\ icons = <<>>
    /\ prior \in FsInits
    /\ files = prior
    /\ effects = <<>>
    /\ NoFrame
    /\ results = <<>>
    /\ tampered = <<>>
    /\ it = 1
    /\ failure = ""

\* the next entry of the dict literal: make_idle() / make_recording() /
\* make_paused(), each of which returns make_png(SIZE, SIZE, pixel)
MakeIcon ==
    /\ pc = "icons" /\ Len(icons) < Len(ICONS)
    /\ LET name == ICONS[Len(icons) + 1][1]
           f    == ICONS[Len(icons) + 1][2]
       IN  IF PixelsValid(SIZE, SIZE, f)
           THEN /\ icons' = Append(icons, <<name, MakePng(SIZE, SIZE, f)>>)
                /\ pc' = IF Len(icons') = Len(ICONS) THEN "open" ELSE "icons"
                /\ UNCHANGED failure
           ELSE /\ pc' = "failed"
                /\ failure' = "ValueError"
                /\ UNCHANGED icons
    /\ UNCHANGED <<files, prior, effects, mpc, width, height, pixel_fn, x, y, raw,
                   compressed, ihdr, ret, calls, results, tampered, it>>

\* an exception while an icon is generated: nothing catches it
GenFail ==
    /\ pc = "icons" /\ Len(icons) < Len(ICONS)
    /\ pc' = "failed"
    /\ failure' = "generate"
    /\ UNCHANGED <<icons, files, prior, effects, mpc, width, height, pixel_fn, x, y, raw,
                   compressed, ihdr, ret, calls, results, tampered, it>>

\* for name, data in icons.items(): with open(path, 'wb') as f:
OpenFile ==
    /\ pc = "open" /\ it <= Len(icons)
    /\ files' = [files EXCEPT ![icons[it][1]] = [exists |-> TRUE, data |-> <<>>]]
    /\ pc' = "write"
    /\ UNCHANGED <<icons, prior, effects, mpc, width, height, pixel_fn, x, y, raw,
                   compressed, ihdr, ret, calls, results, tampered, it, failure>>

\* a faulty handling of open() raising: the file is skipped and the loop goes on
OpenFailSkip ==
    /\ pc = "open" /\ it <= Len(icons)
    /\ it' = it + 1
    /\ failure' = "open"
    /\ UNCHANGED <<pc, icons, files, prior, effects, mpc, width, height, pixel_fn, x, y,
                   raw, compressed, ihdr, ret, calls, results, tampered>>

\* open() raises (an unwritable directory): nothing catches it
OpenFail ==
    /\ pc = "open" /\ it <= Len(icons)
    /\ pc' = "failed"
    /\ failure' = "open"
    /\ UNCHANGED <<icons, files, prior, effects, mpc, width, height, pixel_fn, x, y, raw,
                   compressed, ihdr, ret, calls, results, tampered, it>>

\* a faulty write: the file opened for appending ('ab')
WriteFileAppend ==
    /\ pc = "write"
    /\ files' = [files EXCEPT ![icons[it][1]] =
                    [exists |-> TRUE, data |-> prior[icons[it][1]].data \o icons[it][2]]]
    /\ effects' = Append(effects, [op |-> "write", text |-> "", name |-> icons[it][1],
                                  size |-> Len(icons[it][2])])
    /\ pc' = "print"
    /\ UNCHANGED <<icons, prior, mpc, width, height, pixel_fn, x, y, raw,
                   compressed, ihdr, ret, calls, results, tampered, it, failure>>

\* f.write(data), and the file is closed as the with block ends
WriteFile ==
    /\ pc = "write"
    /\ files' = [files EXCEPT ![icons[it][1]] = [exists |-> TRUE, data |-> icons[it][2]]]
    /\ effects' = Append(effects, [op |-> "write", text |-> "", name |-> icons[it][1],
                                  size |-> Len(icons[it][2])])
    /\ pc' = "print"
    /\ UNCHANGED <<icons, prior, mpc, width, height, pixel_fn, x, y, raw,
                   compressed, ihdr, ret, calls, results, tampered, it, failure>>

\* f.write() raises (the disk is full): part of the data may be in the file
WriteFail ==
    /\ pc = "write"
    /\ \E n \in PartialLens(icons[it][2]) :
          files' = [files EXCEPT ![icons[it][1]] =
                       [exists |-> TRUE, data |-> SubBytes(icons[it][2], 1, n)]]
    /\ pc' = "failed"
    /\ failure' = "write"
    /\ UNCHANGED <<icons, prior, effects, mpc, width, height, pixel_fn, x, y, raw,
                   compressed, ihdr, ret, calls, results, tampered, it>>

\* print(f'Created {name} ({len(data)} bytes)')
PrintCreated ==
    /\ pc = "print"
    /\ effects' = Append(effects, [op |-> "print", text |-> "Created", name |-> icons[it][1],
                                  size |-> Len(icons[it][2])])
    /\ it' = it + 1
    /\ pc' = "open"
    /\ UNCHANGED <<icons, files, prior, mpc, width, height, pixel_fn, x, y, raw,
                   compressed, ihdr, ret, calls, results, tampered, failure>>

\* print() raises (stdout is closed): nothing catches it
PrintFail ==
    /\ pc = "print"
    /\ pc' = "failed"
    /\ failure' = "print"
    /\ UNCHANGED <<icons, files, prior, effects, mpc, width, height, pixel_fn, x, y, raw,
                   compressed, ihdr, ret, calls, results, tampered, it>>

\* the loop is exhausted: print('Done.')
PrintDone ==
    /\ pc = "open" /\ it > Len(icons)
    /\ effects' = Append(effects, [op |-> "print", text |-> "Done.", name |-> "", size |-> 0])
    /\ pc' = "done"
    /\ UNCHANGED <<icons, files, prior, mpc, width, height, pixel_fn, x, y, raw,
                   compressed, ihdr, ret, calls, results, tampered, it, failure>>

Next ==
    \/ MakeIcon \/ GenFail
    \/ OpenFile \/ OpenFail \/ WriteFile \/ WriteFail \/ PrintCreated \/ PrintFail
    \/ PrintDone

Spec == Init /\ [][Next]_vars

----------------------------------------------------------------------------
(* make_png called on its own: a caller that calls it up to MaxCalls times  *)
(* on small images, the way the main block calls it three times in a row.   *)

MaxW == 2
MaxH == 2
MaxCalls == 2

TestFns == {"example", "coord", "overflow"}

InitEnc ==
    /\ pc = "caller"
    /\ icons = <<>>
    /\ prior = [n \in FileNames |-> NoFile]
    /\ files = prior
    /\ effects = <<>>
    /\ NoFrame
    /\ results = <<>>
    /\ tampered = <<>>
    /\ it = 1
    /\ failure = ""

EncCall ==
    /\ pc = "caller" /\ mpc = "none" /\ Len(results) < MaxCalls
    /\ \E w \in 1..MaxW, h \in 1..MaxH, f \in TestFns : EnterMakePng(w, h, f)
    /\ UNCHANGED <<pc, icons, files, prior, effects, results, tampered, it, failure>>

EncReturn ==
    /\ pc = "caller" /\ mpc = "returned"
    /\ results' = Append(results, [w |-> width, h |-> height, f |-> pixel_fn, out |-> ret])
    /\ LeaveMakePng
    /\ UNCHANGED <<pc, icons, files, prior, effects, tampered, it, failure>>

NextEnc ==
    \/ EncCall \/ MpRow \/ MpPixel \/ MpRowEnd \/ MpCompress \/ MpIhdr \/ MpReturn
    \/ EncReturn

SpecEnc == InitEnc /\ [][NextEnc]_vars

----------------------------------------------------------------------------
(* One call of make_png, and then one byte of one chunk's payload of its    *)
(* output is changed on the way to the reader.                              *)

\* the offsets (1-based) of the payload bytes of the chunks of stream b
RECURSIVE PayloadOffsetsFrom(_, _)
PayloadOffsetsFrom(b, i) ==
    IF i + 11 > Len(b) THEN {}
    ELSE LET n == U32(b, i)
         IN  IF n < 0 \/ i + 11 + n > Len(b) THEN {}
             ELSE ((i + 8)..(i + 7 + n)) \cup PayloadOffsetsFrom(b, i + 12 + n)

PayloadOffsets(b) == PayloadOffsetsFrom(b, 9)

\* the calls whose output is tampered with
TamperInputs == { <<2, 1, "example">>, <<1, 2, "coord">>, <<2, 2, "coord">>,
                  <<1, 1, "recording">> }

OneCall ==
    /\ pc = "caller" /\ mpc = "none" /\ results = <<>>
    /\ \E in \in TamperInputs : EnterMakePng(in[1], in[2], in[3])
    /\ UNCHANGED <<pc, icons, files, prior, effects, results, tampered, it, failure>>

Tamper ==
    /\ pc = "caller" /\ mpc = "none" /\ Len(results) = 1
    /\ \E at \in PayloadOffsets(results[1].out), b \in Byte :
          /\ b # results[1].out[at]
          /\ tampered' = [results[1].out EXCEPT ![at] = b]
    /\ pc' = "tampered"
    /\ UNCHANGED <<icons, files, prior, effects, mpc, width, height, pixel_fn, x, y, raw,
                   compressed, ihdr, ret, calls, results, it, failure>>

NextTamper ==
    \/ OneCall \/ MpRow \/ MpPixel \/ MpRowEnd \/ MpCompress \/ MpIhdr \/ MpReturn
    \/ EncReturn \/ Tamper

SpecTamper == InitEnc /\ [][NextTamper]_vars

----------------------------------------------------------------------------
(* The header line of make_png and png_chunk on dimensions of every byte    *)
(* width, which no image small enough to enumerate has.                     *)

PackDims == {1, 2, 255, 256, 258, 65535, 65536, 16909060, 2147483647}

InitHdr ==
    /\ pc = "pack"
    /\ icons = <<>>
    /\ prior = [n \in FileNames |-> NoFile]
    /\ files = prior
    /\ effects = <<>>
    /\ mpc = "none" /\ width \in PackDims /\ height \in PackDims /\ pixel_fn = ""
    /\ x = 0 /\ y = 0 /\ raw = <<>> /\ compressed = <<>> /\ ihdr = <<>>
    /\ ret = <<>> /\ calls = <<>>
    /\ results = <<>>
    /\ tampered = <<>>
    /\ it = 1
    /\ failure = ""

\* ihdr = struct.pack('>IIBBBBB', width, height, 8, 6, 0, 0, 0)
HdrPack ==
    /\ pc = "pack"
    /\ ihdr' = IhdrPayload(width, height)
    /\ pc' = "chunk"
    /\ UNCHANGED <<icons, files, prior, effects, mpc, width, height, pixel_fn, x, y, raw,
                   compressed, ret, calls, results, tampered, it, failure>>

\* png_chunk(b'IHDR', ihdr)
HdrChunk ==
    /\ pc = "chunk"
    /\ ret' = PngChunk(IHDR, ihdr)
    /\ pc' = "packed"
    /\ UNCHANGED <<icons, files, prior, effects, mpc, width, height, pixel_fn, x, y, raw,
                   compressed, ihdr, calls, results, tampered, it, failure>>

NextHdr == HdrPack \/ HdrChunk

SpecHdr == InitHdr /\ [][NextHdr]_vars

----------------------------------------------------------------------------
(* The icon pixel functions on their own: one coordinate of the 48x48 grid, *)
(* and what make_png's loop body does with the pixel returned there.        *)

IconFns == {ICONS[i][2] : i \in 1..Len(ICONS)}

InitPixel ==
    /\ pc = "sample"
    /\ icons = <<>>
    /\ prior = [n \in FileNames |-> NoFile]
    /\ files = prior
    /\ effects = <<>>
    /\ mpc = "none" /\ width = SIZE /\ height = SIZE /\ pixel_fn \in IconFns
    /\ x \in 0..(SIZE - 1) /\ y \in 0..(SIZE - 1)
    /\ raw = <<>> /\ compressed = <<>> /\ ihdr = <<>> /\ ret = <<>> /\ calls = <<>>
    /\ results = <<>>
    /\ tampered = <<>>
    /\ it = 1
    /\ failure = ""

\* r, g, b, a = pixel_fn(x, y); bytes([r, g, b, a])
SamplePixel ==
    /\ pc = "sample"
    /\ LET p == PixelFn(pixel_fn, x, y)
       IN  /\ calls' = <<<<x, y, p>>>>
           /\ IF IsPixel(p) THEN raw' = PixelBytes(p) /\ UNCHANGED failure
              ELSE failure' = "ValueError" /\ UNCHANGED raw
    /\ pc' = "sampled"
    /\ UNCHANGED <<icons, files, prior, effects, mpc, width, height, pixel_fn, x, y,
                   compressed, ihdr, ret, results, tampered, it>>

NextPixel == SamplePixel

SpecPixel == InitPixel /\ [][NextPixel]_vars

----------------------------------------------------------------------------
(* Properties of the main block: invariants of Spec *)

IsPrefix(s, t) == Len(s) <= Len(t) /\ \A k \in 1..Len(s) : s[k] = t[k]

\* what a run without failure does to the outside, given the three sizes
ExpectedEffects(n1, n2, n3) ==
    << [op |-> "write", text |-> "", name |-> "idle.png", size |-> n1],
       [op |-> "print", text |-> "Created", name |-> "idle.png", size |-> n1],
       [op |-> "write", text |-> "", name |-> "recording.png", size |-> n2],
       [op |-> "print", text |-> "Created", name |-> "recording.png", size |-> n2],
       [op |-> "write", text |-> "", name |-> "paused.png", size |-> n3],
       [op |-> "print", text |-> "Created", name |-> "paused.png", size |-> n3],
       [op |-> "print", text |-> "Done.", name |-> "", size |-> 0] >>

ExpectedNow == ExpectedEffects(Len(icons[1][2]), Len(icons[2][2]), Len(icons[3][2]))

\* C6: the recording icon's pixel function (a circle of radius 20 centred at
\* (24,24) in a 48x48 image) returns (0,0,0,0) at (0,0) and (220,50,50,255) at
\* (24,24), and the encoded icon, as the dict holds it and as the file
\* recording.png holds it once written, decodes to those values there.
C6_RecordingCornerAndCentre ==
    /\ Len(icons) >= 2 =>
          /\ icons[2][1] = "recording.png"
          /\ PixelFn(ICONS[2][2], 0, 0) = <<0, 0, 0, 0>>
          /\ PixelFn(ICONS[2][2], 24, 24) = <<220, 50, 50, 255>>
    /\ (Len(icons) = 2 \/ pc = "done") =>
          LET img == DecodePng(IF pc = "done" THEN files["recording.png"].data
                               ELSE icons[2][2])
          IN  /\ img.ok /\ img.width = 48 /\ img.height = 48
              /\ DecodedPixel(img, 0, 0) = <<0, 0, 0, 0>>
              /\ DecodedPixel(img, 24, 24) = <<220, 50, 50, 255>>

C6_Witness ==
    /\ pc = "icons" /\ Len(icons) = 2
    /\ icons[2][1] = "recording.png"
    /\ DecodePng(icons[2][2]).ok
    /\ DecodedPixel(DecodePng(icons[2][2]), 24, 24) = <<220, 50, 50, 255>>

\* C7: a run without failure writes idle.png and prints its line, then
\* recording.png and its line, then paused.png and its line, then prints
\* 'Done.', each once and in this order: at every moment what the run has done
\* is a prefix of that list, and at the end it is the whole list.  A line is
\* printed only when its file holds the whole data, and the count it reports
\* is the length of the file; a file that was there before is replaced.
C7_WriteThenPrintInOrder ==
    /\ effects # <<>> => (Len(icons) = 3 /\ IsPrefix(effects, ExpectedNow))
    /\ \A k \in 1..Len(effects) :
          (effects[k].op = "print" /\ effects[k].text = "Created") =>
             /\ files[effects[k].name].exists
             /\ Len(files[effects[k].name].data) = effects[k].size
             /\ \E i \in 1..3 : /\ icons[i][1] = effects[k].name
                                /\ files[effects[k].name].data = icons[i][2]
    /\ pc = "done" =>
          /\ failure = ""
          /\ effects = ExpectedNow
          /\ \A i \in 1..3 :
                files[ExpectedNow[2 * i].name] = [exists |-> TRUE, data |-> icons[i][2]]

C7_Witness ==
    /\ pc = "done"
    /\ Len(effects) = 7
    /\ prior["recording.png"].exists /\ ~prior["idle.png"].exists
    /\ files["recording.png"].data # prior["recording.png"].data
    /\ effects[4].size = Len(files["recording.png"].data)
    /\ effects[4].size > 0

\* C9: a failure ends the run where it happens.  When the generation of an icon
\* fails, no file has been touched and nothing has been printed.  When the k-th
\* file cannot be opened or written, the files and lines before k are there,
\* there is no line for k, no later file has been touched and 'Done.' has not
\* been printed (and the same when the line for k cannot be printed, with file
\* k written).  Nothing happens after a failure.
C9_FailureStopsTheRun ==
    /\ (failure # "") <=> (pc = "failed")
    /\ failure \in {"generate", "ValueError"} => (effects = <<>> /\ files = prior)
    /\ failure \in {"open", "write", "print"} =>
          /\ Len(icons) = 3 /\ it \in 1..3
          /\ effects = SubSeq(ExpectedNow, 1,
                              (2 * (it - 1)) + (IF failure = "print" THEN 1 ELSE 0))
          /\ \A j \in 1..3 :
                /\ (j < it \/ (j = it /\ failure = "print")) =>
                      files[ICONS[j][1]] = [exists |-> TRUE, data |-> icons[j][2]]
                /\ j > it => files[ICONS[j][1]] = prior[ICONS[j][1]]
          /\ \A k \in 1..Len(effects) :
                /\ effects[k].op = "print" => effects[k].name # ICONS[it][1]
                /\ effects[k].name \in {ICONS[j][1] : j \in 1..it}
                /\ effects[k].text # "Done."
    /\ pc = "failed" => ~ENABLED Next

C9_Witness ==
    /\ pc = "failed" /\ failure = "write" /\ it = 2
    /\ Len(effects) = 2
    /\ files["idle.png"].data = icons[1][2]
    /\ prior["paused.png"].exists /\ files["paused.png"] = prior["paused.png"]

----------------------------------------------------------------------------
(* Properties of the icon pixel functions: invariants of SpecPixel *)

\* the one-pixel boundary band of the recording circle: 19.5 < dist <= 20.5
InBand(px, py) ==
    LET d4 == 4 * (Sq(px - 24) + Sq(py - 24))
    IN  1521 < d4 /\ d4 <= 1681

\* C10: at every coordinate of the 48x48 grid each of the three icon functions
\* returns four integers in 0..255, so the conversion to bytes in make_png does
\* not fail; an idle or paused pixel is the icon's colour with alpha 255 or
\* (0,0,0,0); a recording pixel is (0,0,0,0), or red with alpha 255, or red
\* with an alpha in 0..254 at a coordinate of the boundary band.
C10_IconPixelsValid ==
    pc = "sampled" =>
       LET p == calls[1][3]
       IN  /\ failure = ""
           /\ Len(p) = 4
           /\ \A i \in 1..4 : p[i] \in 0..255
           /\ raw = p
           /\ pixel_fn = "idle" => p \in {<<130, 130, 140, 255>>, <<0, 0, 0, 0>>}
           /\ pixel_fn = "paused" => p \in {<<230, 190, 40, 255>>, <<0, 0, 0, 0>>}
           /\ pixel_fn = "recording" =>
                 \/ p = <<0, 0, 0, 0>>
                 \/ p = <<220, 50, 50, 255>>
                 \/ /\ <<p[1], p[2], p[3]>> = <<220, 50, 50>>
                    /\ p[4] \in 0..254
                    /\ InBand(x, y)

C10_Witness ==
    /\ pc = "sampled" /\ pixel_fn = "recording"
    /\ calls[1][3][4] \in 1..254
    /\ InBand(x, y)

----------------------------------------------------------------------------
(* Properties of the encoder: invariants of SpecEnc *)

\* C1: what make_png returns decodes (chunks parsed and CRC-checked, the IDAT
\* payload decompressed, each row's filter byte dropped) to an image of the
\* given width and height whose pixel at every (x, y) is the quadruple the
\* pixel function returns there; make_png(2, 1, f) with f(0,0) = (255,0,0,255)
\* and f(1,0) = (0,255,0,128) decodes to those two pixels in that order.
C1_RoundTrip ==
    mpc = "returned" =>
       LET img == DecodePng(ret)
       IN  /\ img.ok
           /\ img.width = width /\ img.height = height
           /\ \A py \in 0..(height - 1) : \A px \in 0..(width - 1) :
                 DecodedPixel(img, px, py) = PixelFn(pixel_fn, px, py)
           /\ (width = 2 /\ height = 1 /\ pixel_fn = "example") =>
                 /\ DecodedPixel(img, 0, 0) = <<255, 0, 0, 255>>
                 /\ DecodedPixel(img, 1, 0) = <<0, 255, 0, 128>>

C1_Witness ==
    /\ mpc = "returned" /\ width = 2 /\ height = 1 /\ pixel_fn = "example"
    /\ DecodePng(ret).ok
    /\ DecodedPixel(DecodePng(ret), 1, 0) = <<0, 255, 0, 128>>

\* C2: what make_png returns is the 8 signature bytes 89 50 4E 47 0D 0A 1A 0A
\* followed by exactly three chunks, IHDR then IDAT then IEND, which together
\* with the signature account for every byte; the IEND chunk has no payload.
C2_SignatureAndThreeChunks ==
    mpc = "returned" =>
       LET cs == ParseChunks(ret)
       IN  /\ Len(ret) >= 8
           /\ SubBytes(ret, 1, 8) = <<137, 80, 78, 71, 13, 10, 26, 10>>
           /\ Len(cs) = 3
           /\ \A i \in 1..3 : cs[i] # Malformed
           /\ cs[1].type = <<73, 72, 68, 82>>
           /\ cs[2].type = <<73, 68, 65, 84>>
           /\ cs[3].type = <<73, 69, 78, 68>>
           /\ cs[3].data = <<>>
           /\ Len(ret) = 8 + (12 + Len(cs[1].data)) + (12 + Len(cs[2].data)) + 12
           /\ ret = MakePng(width, height, pixel_fn)

C2_Witness ==
    /\ mpc = "returned" /\ width = 2 /\ height = 2 /\ pixel_fn = "coord"
    /\ Len(ParseChunks(ret)) = 3
    /\ ParseChunks(ret)[3].data = <<>>

\* C5: make_png is deterministic and keeps to itself: two finished calls with
\* the same width, height and pixel function returned the same bytes, whatever
\* was called in between, and no call has touched a file or printed anything.
C5_SameInputsSameBytes ==
    /\ \A i \in 1..Len(results) : \A j \in 1..Len(results) :
          (results[i].w = results[j].w /\ results[i].h = results[j].h
              /\ results[i].f = results[j].f) => results[i].out = results[j].out
    /\ files = prior /\ effects = <<>> /\ icons = <<>>

C5_Witness ==
    /\ Len(results) >= 2
    /\ results[1].w = results[2].w /\ results[1].h = results[2].h
    /\ results[1].f = results[2].f
    /\ results[1].f = "coord" /\ results[1].w = 2
    /\ results[1].out = results[2].out

\* C8: the buffer handed to the compressor has length h * (1 + 4w); the byte
\* at offset y * (1 + 4w) is the filter byte 0 and the four bytes at offset
\* y * (1 + 4w) + 1 + 4x are the red, green, blue and alpha f(x, y) returned;
\* f has been called once per coordinate, row after row from the top and left
\* to right within a row.  (Offsets count from 0; sequences here from 1.)
C8_ScanlineLayout ==
    mpc \in {"ihdr", "return", "returned"} =>
       LET stride == 1 + (4 * width)
       IN  /\ Len(raw) = height * stride
           /\ \A py \in 0..(height - 1) :
                 /\ raw[(py * stride) + 1] = 0
                 /\ \A px \in 0..(width - 1) :
                       LET at == (py * stride) + 1 + (4 * px)
                           p  == PixelFn(pixel_fn, px, py)
                       IN  /\ raw[at + 1] = p[1] /\ raw[at + 2] = p[2]
                           /\ raw[at + 3] = p[3] /\ raw[at + 4] = p[4]
           /\ Len(calls) = width * height
           /\ \A k \in 1..Len(calls) :
                 calls[k] = <<(k - 1) % width, (k - 1) \div width,
                              PixelFn(pixel_fn, (k - 1) % width, (k - 1) \div width)>>
           /\ ZlibDecompress(compressed) = [ok |-> TRUE, data |-> raw]
           /\ raw = Scanlines(width, height, pixel_fn)

C8_Witness ==
    /\ mpc = "ihdr" /\ width = 2 /\ height = 2 /\ pixel_fn = "coord"
    /\ Len(raw) = 18
    /\ raw[10] = 0
    /\ Len(calls) = 4 /\ calls[3] = <<0, 1, <<2, 100, 201, 254>>>>

----------------------------------------------------------------------------
(* Properties of the header: invariants of SpecHdr *)

\* C3: the IHDR chunk has a payload of exactly 13 bytes: the width in 4 bytes
\* and the height in 4 bytes, most significant byte first, then bit depth 8,
\* colour type 6, compression method 0, filter method 0, interlace method 0.
C3_IhdrFields ==
    /\ pc \in {"chunk", "packed"} =>
          /\ Len(ihdr) = 13
          /\ ((ihdr[1] * 16777216) + (ihdr[2] * 65536)) + ((ihdr[3] * 256) + ihdr[4]) = width
          /\ ((ihdr[5] * 16777216) + (ihdr[6] * 65536)) + ((ihdr[7] * 256) + ihdr[8]) = height
          /\ \A i \in 1..13 : ihdr[i] \in 0..255
          /\ <<ihdr[9], ihdr[10], ihdr[11], ihdr[12], ihdr[13]>> = <<8, 6, 0, 0, 0>>
    /\ pc = "packed" =>
          LET cs == ChunksFrom(ret, 1)
          IN  /\ Len(cs) = 1
              /\ cs[1].type = <<73, 72, 68, 82>>
              /\ cs[1].data = ihdr
              /\ ChunkCrcOk(cs[1])

C3_Witness ==
    /\ pc = "packed" /\ width = 16909060 /\ height = 258
    /\ SubBytes(ihdr, 1, 8) = <<1, 2, 3, 4, 0, 0, 1, 2>>

----------------------------------------------------------------------------
(* Properties of the chunk framing: invariants of SpecTamper *)

\* C4: each of the three chunks is the payload length in 4 bytes (the type tag
\* not counted), the 4-byte type tag, the payload, and the CRC-32 of tag and
\* payload in 4 bytes, all most significant byte first; and once any one byte
\* of a chunk's payload is changed, the CRC stored in that chunk is no longer
\* the CRC-32 of its tag and payload, so the reader rejects the stream.
C4_ChunkFramingAndCrc ==
    /\ mpc = "returned" =>
          LET n  == Len(compressed)
              cs == ParseChunks(ret)
          IN  /\ SubBytes(ret, 9, 12) = <<0, 0, 0, 13>>
              /\ SubBytes(ret, 13, 16) = <<73, 72, 68, 82>>
              /\ SubBytes(ret, 17, 29) = ihdr
              /\ U32(ret, 34) = n
              /\ SubBytes(ret, 38, 41) = <<73, 68, 65, 84>>
              /\ SubBytes(ret, 42, 41 + n) = compressed
              /\ SubBytes(ret, 46 + n, 57 + n) = <<0, 0, 0, 0, 73, 69, 78, 68, 174, 66, 96, 130>>
              /\ Len(ret) = 57 + n
              /\ Len(cs) = 3
              /\ \A i \in 1..3 : cs[i].crc = Crc32(cs[i].type \o cs[i].data)
    /\ tampered # <<>> =>
          LET cs == ParseChunks(tampered)
          IN  /\ Len(cs) = 3
              /\ \E i \in 1..3 : cs[i].crc # Crc32(cs[i].type \o cs[i].data)
              /\ ~DecodePng(tampered).ok

C4_Witness ==
    /\ pc = "tampered"
    /\ results[1].w = 2 /\ results[1].h = 1 /\ results[1].f = "example"
    /\ ParseChunks(tampered)[2].data # ParseChunks(results[1].out)[2].data
    /\ DecodePng(results[1].out).ok

====
